---- MODULE Spec2Model ----
(***************************************************************************)
(* A state-machine model of finetune.base.BaseModel (src/finetune/base.py):*)
(* lazy graph construction, the training loop with its rolling validation  *)
(* window, inference, text generation and save / load.                     *)
(*                                                                         *)
(* Encodings.  Python None is the number 0 for target_dim and for the      *)
(* max_length argument (both are only tested for truth or compared), the   *)
(* string "None" for label_encoder, self.train and op handles, and the     *)
(* string "False" for the _load_from_file marker.  The value of a group of *)
(* TensorFlow variables is a stamp: 0 is "uninitialised", and every random *)
(* initialisation or gradient update writes a stamp never used before, so  *)
(* two values are equal exactly when they stem from the same write.        *)
(***************************************************************************)
EXTENDS Integers, Sequences, FiniteSets, TLC

\* ------------------------------------------------------------------ bounds
MaxStamp == 4
MaxBatches == 2
MaxValBatches == 1
MaxLoss == 1
MaxGenArg == 4
MaxExamples == 2
MaxToken == 2
MaxAFLen == 3
MaxBaseRows == 2      \* rows of the pretrained token embedding
MaxSpecial == 3       \* special tokens of the encoder
MaxParams == 3        \* arrays in the pretrained parameter files
MaxGridValues == 2    \* values a ranged configuration item iterates over
MaxScore == 1         \* largest score eval_fn gives

\* ------------------------------------------------------- program constants
DROPOUT_ON == 1
DROPOUT_OFF == 0
PosEmbedRows == 512
Inf == 1000000

Paths == {"file", "dirA"}
LabelSets == {"xy"}
Groups == {"shared", "target"}
OpNames == {"features", "lm_predict_op", "train_op", "predict_op",
            "predict_proba_op", "target_loss"}
EntryOps == {"finetune", "predict", "predict_proba", "featurize", "generate_text"}

DefaultConfig ==
  [max_length |-> 3, interpolate_pos_embed |-> FALSE, lm_loss_coef |-> 1,
   save_best_model |-> TRUE, autosave_path |-> "dirA", val_window_size |-> 2,
   val_interval |-> 1, n_epochs |-> 3]
ShortConfig == [DefaultConfig EXCEPT !.save_best_model = FALSE, !.n_epochs = 1]
LongConfig == [DefaultConfig EXCEPT !.max_length = PosEmbedRows + 1]
NoLmConfig ==
  [DefaultConfig EXCEPT !.lm_loss_coef = 0, !.val_interval = 2,
                        !.val_window_size = 1, !.n_epochs = 2]

\* The configurations of the save / load runs and of the generation runs.
Configs == {DefaultConfig, ShortConfig}
GenConfigs == {ShortConfig, LongConfig, NoLmConfig}

\* Token ids of the encoder's special tokens and of two words.
START == "_start_"
EOS == "_classify_"
Seeds == {<<>>, <<"a", "b">>}
Sampled == {"a", EOS}

VARIABLES
  self,        \* the model object in memory
  graph,       \* TensorFlow's default graph and what was last constructed in it
  fs,          \* the file system: per path its kind, checkpoint and pickle
  pc,          \* "idle", "training" or "generating"
  loop,        \* locals of the running _training_loop
  gen,         \* locals of the running generate_text
  runs,        \* the sess.run calls made by the latest step
  last,        \* the latest call: its name, outcome and what its build did
  stamp,       \* the last variable value handed out
  snap,        \* per path, the saving model's state at its latest save
  loadedFrom,  \* the path this instance was unpickled from, until it is
               \* trained or saved again
  prevFeat,    \* what the previous featurize read (0: none since finetune)
  restoredOnce, \* this instance has restored its variables from a checkpoint
  afIn,        \* the encoder output handed to _array_format
  afOut,       \* what _array_format returned for it
  lb,          \* the pretrained files read by _load_base_model and its result
  gs           \* locals of the running finetune_grid_search and its result

vars == <<self, graph, fs, pc, loop, gen, runs, last, stamp, snap, loadedFrom,
          prevFeat, restoredOnce, afIn, afOut, lb, gs>>
afVars == <<afIn, afOut>>
auxVars == <<afIn, afOut, lb, gs>>

NoVals == [g \in Groups |-> 0]
NoOps == [o \in OpNames |-> "None"]
NoLast == [op |-> "init", raised |-> "", constructed |-> FALSE, restored |-> {},
           inited |-> {}, pre |-> FALSE, rtrain |-> "None", rtd |-> 0,
           read |-> NoVals, path |-> "None"]

\* _initialize: the non-serialized fields (lines 63-90).
Initialize(s) ==
  [s EXCEPT !.ops = NoOps, !.train = "None", !.sess = [open |-> FALSE, vals |-> NoVals],
            !.is_built = FALSE, !.is_trained = FALSE, !.require_lm = FALSE]

\* __init__ (lines 48-61).
NewModel(cfg) ==
  Initialize([config |-> cfg, label_encoder |-> "None", target_dim |-> 0,
              load_from_file |-> "False", ops |-> NoOps, train |-> "None",
              sess |-> [open |-> FALSE, vals |-> NoVals], is_built |-> FALSE,
              is_trained |-> FALSE, require_lm |-> FALSE])

EmptyGraph == [vars |-> {}, train |-> "None", td |-> 0, lm |-> FALSE]

\* _load_base_model's configuration check (lines 623-628).
PosEmbedError_OffByOne(cfg) ==
  ~cfg.interpolate_pos_embed /\ cfg.max_length > PosEmbedRows + 1
PosEmbedError(cfg) ==
  ~cfg.interpolate_pos_embed /\ cfg.max_length > PosEmbedRows

\* The rebuild guard of _build_model (line 535).
NeedsConstruct(s, target_dim, train) ==
  ~s.is_trained \/ train # s.train \/ s.target_dim # target_dim

\* compile_lm of _construct_graph (lines 430-433).
CompileLm(cfg, require_lm, target_dim, train) ==
  LET lm_loss_coef == IF target_dim = 0 THEN 1 ELSE cfg.lm_loss_coef
  IN  (train = "train" /\ lm_loss_coef > 0) \/ require_lm

\* _construct_graph (lines 410-527): new placeholders and ops in the same
\* default graph; variables are shared by name (AUTO_REUSE), so the ones that
\* exist keep their session values, and handles that are not rebuilt keep
\* pointing at ops fed by the previous placeholders.
ConstructGraph(m, target_dim, train) ==
  LET lm == CompileLm(m.self.config, m.self.require_lm, target_dim, train)
      built == {"features"}
               \cup (IF lm THEN {"lm_predict_op"} ELSE {})
               \cup (IF train = "train" THEN {"train_op"} ELSE {})
               \cup (IF target_dim # 0
                     THEN {"predict_op", "predict_proba_op", "target_loss"} ELSE {})
      ops == [o \in OpNames |->
                IF o \in built THEN "cur"
                ELSE IF m.self.ops[o] = "None" THEN "None" ELSE "stale"]
  IN  [m EXCEPT !.self.train = train, !.self.ops = ops,
                !.graph = [vars |-> m.graph.vars \cup {"shared"}
                                    \cup (IF target_dim # 0 THEN {"target"} ELSE {}),
                           train |-> train, td |-> target_dim, lm |-> lm]]

RestoreVarList_SharedOnly(target_dim, gvars) == gvars \cap {"shared"}
\* The var_list of _load_finetuned_model (lines 718-720); target_dim is the
\* stored one, not yet overwritten by the build in progress.
RestoreVarList(target_dim, gvars) ==
  (gvars \cap {"shared"}) \cup (IF target_dim # 0 THEN gvars \cap {"target"} ELSE {})

\* _load_finetuned_model (lines 717-724). saver.restore raises when the
\* checkpoint files are missing or lack a variable of the list.
LoadFinetunedModel(m, fsys) ==
  LET var_list == RestoreVarList(m.self.target_dim, m.graph.vars)
      ck == fsys[m.self.load_from_file].ckpt
  IN  IF ck = <<>> \/ \E g \in var_list : ck[1][g] = 0
      THEN [m |-> m, raised |-> "RestoreError", restored |-> {}]
      ELSE [m |-> [m EXCEPT !.self.sess.vals =
                               [g \in Groups |-> IF g \in var_list THEN ck[1][g] ELSE @[g]],
                            !.self.load_from_file = "False",
                            !.self.is_trained = TRUE],
            raised |-> "", restored |-> var_list]

\* _init_from_pretrained (lines 643-655): global_variables_initializer, then
\* the pretrained parameters, whose special-token rows _load_base_model drew
\* from np.random in this very build (lines 630-635).
InitFromPretrained(m) ==
  [m EXCEPT !.self.sess.vals = [g \in Groups |-> IF g \in m.graph.vars THEN m.st + 1 ELSE @[g]],
            !.st = m.st + 1]

\* guarantee_initialized_variables(keys=['model/target', 'adam']) (line 552).
GuaranteeInitialized(m) ==
  IF "target" \in m.graph.vars /\ m.self.sess.vals["target"] = 0
  THEN [m EXCEPT !.self.sess.vals["target"] = m.st + 1, !.st = m.st + 1]
  ELSE m

\* _build_model (lines 529-560). The result carries the machine after the
\* call, the exception raised ("" for none) and what the call did.
BuildModel(m, fsys, target_dim, train) ==
  IF PosEmbedError(m.self.config)
  THEN [m |-> m, raised |-> "ValueError", constructed |-> FALSE, restored |-> {},
        inited |-> {}, pre |-> FALSE]
  ELSE
    LET need == NeedsConstruct(m.self, target_dim, train)
        m1 == IF need THEN ConstructGraph(m, target_dim, train) ELSE m
        m2 == [m1 EXCEPT !.self.sess.open = TRUE]
        pending == m2.self.load_from_file # "False"
        r == LoadFinetunedModel(m2, fsys)
        pre == ~pending /\ ~m2.self.is_trained
        m3 == IF pending THEN r.m ELSE IF pre THEN InitFromPretrained(m2) ELSE m2
        m4 == [m3 EXCEPT !.self.target_dim = target_dim]
        m5 == GuaranteeInitialized(m4)
        m6 == [m5 EXCEPT !.self.is_built = TRUE]
    IN  IF pending /\ r.raised # ""
        THEN [m |-> m2, raised |-> r.raised, constructed |-> need, restored |-> {},
              inited |-> {}, pre |-> FALSE]
        ELSE [m |-> m6, raised |-> "", constructed |-> need,
              restored |-> IF pending THEN r.restored ELSE {},
              inited |-> IF m5.st # m4.st THEN {"target"} ELSE {},
              pre |-> pre]

Machine == [self |-> self, graph |-> graph, st |-> stamp]

\* __getstate__ (lines 657-668): what pickle keeps of the object.
GetState(s) ==
  [label_encoder |-> s.label_encoder, target_dim |-> s.target_dim,
   load_from_file |-> s.load_from_file, config |-> s.config]

\* The path test of save (lines 691-696).
SavePathCheck_AcceptFile(kind) == IF kind = "absent" THEN "mkdir" ELSE "ok"
SavePathCheck(kind) ==
  IF kind # "absent" THEN (IF kind # "dir" THEN "raise" ELSE "ok") ELSE "mkdir"

\* save (lines 670-702). tf.train.Saver raises ValueError on an empty list of
\* variables (line 690); saver.save raises when a variable has no value.
SaveModel(m, fsys, path) ==
  IF path = "None" THEN [m |-> m, fs |-> fsys, raised |-> ""]
  ELSE
    LET m1 == [m EXCEPT !.self.load_from_file = path]
        chk == SavePathCheck(fsys[path].kind)
        fs1 == IF chk = "mkdir" THEN [fsys EXCEPT ![path].kind = "dir"] ELSE fsys
        vals == m.self.sess.vals
    IN  IF m.graph.vars = {} \/ chk = "raise"
        THEN [m |-> m1, fs |-> fsys, raised |-> "ValueError"]
        ELSE IF ~m.self.sess.open \/ \E g \in m.graph.vars : vals[g] = 0
        THEN [m |-> m1, fs |-> fs1, raised |-> "SaveError"]
        ELSE [m |-> [m1 EXCEPT !.self.load_from_file = "False"],
              fs |-> [fs1 EXCEPT ![path].ckpt =
                                   <<[g \in Groups |-> IF g \in m.graph.vars THEN vals[g] ELSE 0]>>,
                                 ![path].pkl = <<GetState(m1.self)>>],
              raised |-> ""]

\* One sess.run: the op handle, whether it belongs to the current graph, where
\* the fed batch comes from, the dropout flag fed (none: {}), the (train,
\* target_dim) pair of the graph last constructed and the pair the entry point
\* asked _build_model for.
RunRec(s, g, op, src, dropout, rtrain, rtd) ==
  [op |-> op, st |-> IF op \in OpNames THEN s.ops[op] ELSE "cur", src |-> src,
   dropout |-> dropout, gtrain |-> g.train, gtd |-> g.td, rtrain |-> rtrain, rtd |-> rtd]

\* Nothing loaded by _load_base_model yet; no grid search run yet.
NoBase == [state |-> "none", nBase |-> 0, nSpecial |-> 0, init_params |-> <<>>, mask |-> <<>>]
NoGrid == [state |-> "none", config |-> <<>>, return_all |-> FALSE, grid |-> <<>>,
           points |-> <<>>, results |-> <<>>, out |-> <<>>]

InitWith(cfgs) ==
  /\ self \in {NewModel(cfg) : cfg \in cfgs}
  /\ graph = EmptyGraph
  /\ fs = [p \in Paths |->
            [kind |-> IF p = "file" THEN "file" ELSE "absent",
             ckpt |-> <<>>, pkl |-> <<>>]]
  /\ pc = "idle"
  /\ loop = <<>>
  /\ gen = <<>>
  /\ runs = {}
  /\ last = NoLast
  /\ stamp = 0
  /\ snap = [p \in Paths |-> <<>>]
  /\ loadedFrom = "None"
  /\ prevFeat = 0
  /\ restoredOnce = FALSE
  /\ afIn = <<>>
  /\ afOut = [state |-> "none", token_ids |-> <<>>, mask |-> <<>>, labels |-> <<>>]
  /\ lb = NoBase
  /\ gs = NoGrid

Init == InitWith(Configs)

\* save(path) called by the user.
Save(path) ==
  /\ pc = "idle"
  /\ LET r == SaveModel(Machine, fs, path) IN
     /\ self' = r.m.self
     /\ fs' = r.fs
     /\ last' = [NoLast EXCEPT !.op = "save", !.raised = r.raised, !.path = path]
     /\ snap' = IF r.raised = "" /\ path # "None"
                THEN [snap EXCEPT ![path] = <<[vals |-> self.sess.vals,
                                               label_encoder |-> self.label_encoder,
                                               target_dim |-> self.target_dim,
                                               is_trained |-> self.is_trained]>>]
                ELSE snap
  /\ runs' = {}
  /\ loadedFrom' = "None"
  /\ UNCHANGED <<graph, pc, loop, gen, stamp, prevFeat, restoredOnce, auxVars>>

\* load(path) (lines 704-715): the unpickled object replaces the one in
\* memory; tf.reset_default_graph empties the default graph.
Load(path) ==
  /\ pc = "idle"
  /\ fs[path].pkl # <<>>
  /\ LET st == fs[path].pkl[1] IN
     self' = Initialize([NewModel(st.config) EXCEPT
                           !.label_encoder = st.label_encoder,
                           !.target_dim = st.target_dim,
                           !.load_from_file = st.load_from_file])
  /\ graph' = EmptyGraph
  /\ last' = [NoLast EXCEPT !.op = "load", !.path = path]
  /\ runs' = {}
  /\ loadedFrom' = path
  /\ prevFeat' = 0
  /\ restoredOnce' = FALSE
  /\ UNCHANGED <<fs, pc, loop, gen, stamp, snap, auxVars>>

\* The op handle each inference entry point runs.
InferHandle(op) ==
  IF op = "predict" THEN "predict_op"
  ELSE IF op = "predict_proba" THEN "predict_proba_op" ELSE "features"

\* predict / predict_proba / featurize (lines 263-353): _infer_prep builds the
\* graph in eval mode for the current target_dim, then every batch is run
\* with dropout off. predict and predict_proba need a fitted label encoder
\* and an op that exists.
Infer(op) ==
  /\ pc = "idle"
  /\ LET b == BuildModel(Machine, fs, self.target_dim, "eval")
         h == InferHandle(op)
         s == b.m.self
         bad == op # "featurize" /\ (s.ops[h] = "None" \/ s.label_encoder \in {"None", "unfit"})
         ok == b.raised = "" /\ ~bad
     IN
     /\ b.m.st <= MaxStamp
     /\ self' = s
     /\ graph' = b.m.graph
     /\ stamp' = b.m.st
     /\ runs' = IF b.raised = ""
                THEN {RunRec(s, b.m.graph, h, "infer", {DROPOUT_OFF}, "eval", self.target_dim)}
                ELSE {}
     /\ last' = [op |-> op,
                 raised |-> IF b.raised # "" THEN b.raised ELSE IF bad THEN "TypeError" ELSE "",
                 constructed |-> b.constructed, restored |-> b.restored,
                 inited |-> b.inited, pre |-> b.pre, rtrain |-> "eval",
                 rtd |-> self.target_dim,
                 read |-> IF ok
                          THEN [g \in Groups |->
                                  IF g = "shared" \/ (op # "featurize" /\ b.m.graph.td # 0)
                                  THEN s.sess.vals[g] ELSE 0]
                          ELSE NoVals,
                 path |-> "None"]
     /\ prevFeat' = IF op = "featurize" /\ ok THEN s.sess.vals["shared"] ELSE prevFeat
     /\ restoredOnce' = (restoredOnce \/ b.restored # {})
  /\ UNCHANGED <<fs, pc, loop, gen, snap, loadedFrom, auxVars>>

RECURSIVE SumSeq(_)
SumSeq(q) == IF q = <<>> THEN 0 ELSE Head(q) + SumSeq(Tail(q))

\* np.mean(val_window) (line 240), times the window size: the windows compared
\* all have val_window_size entries, so the sums order as the means do, and
\* a window that still holds float("inf") has mean inf.
WindowMean_LastOnly(w) == w[Len(w)]
WindowMean(w) ==
  IF \E i \in 1..Len(w) : w[i] = Inf THEN Inf ELSE SumSeq(w)

\* The dropout flag of the gradient-update step (line 247); validated tells
\* whether this step ran a validation check, which set the flag to off
\* (lines 207, 218).
TrainStepDropout_KeepOff(validated) == IF validated THEN DROPOUT_OFF ELSE DROPOUT_ON
TrainStepDropout(validated) == DROPOUT_ON

\* finetune up to the first mini-batch (lines 146-188): a new label encoder,
\* fitted when labels are given; the graph built in train mode; the loop's
\* locals. Y is "None" or the label set; nb and nv are the numbers of
\* mini-batches the training and the validation partition yield.
FinetuneStart(Y, nb, nv) ==
  /\ pc = "idle"
  /\ LET target_dim == IF Y = "None" THEN 0 ELSE 2
         m0 == [Machine EXCEPT !.self.label_encoder = IF Y = "None" THEN "unfit" ELSE Y]
         b == BuildModel(m0, fs, target_dim, "train")
     IN
     /\ b.m.st <= MaxStamp
     /\ self' = IF b.raised = "" THEN [b.m.self EXCEPT !.is_trained = TRUE] ELSE b.m.self
     /\ graph' = b.m.graph
     /\ stamp' = b.m.st
     /\ pc' = IF b.raised = "" THEN "training" ELSE "idle"
     /\ loop' = IF b.raised = ""
                THEN [td |-> target_dim, nBatches |-> nb, nVal |-> nv, epoch |-> 0,
                      batch |-> 0, global_step |-> 0, best_val_loss |-> Inf,
                      val_window |-> [i \in 1..self.config.val_window_size |-> Inf],
                      checks |-> <<>>]
                ELSE <<>>
     /\ last' = [op |-> "finetune", raised |-> b.raised, constructed |-> b.constructed,
                 restored |-> b.restored, inited |-> b.inited, pre |-> b.pre,
                 rtrain |-> "train", rtd |-> target_dim, read |-> NoVals, path |-> "None"]
     /\ restoredOnce' = (restoredOnce \/ b.restored # {})
  /\ runs' = {}
  /\ loadedFrom' = "None"
  /\ prevFeat' = 0
  /\ UNCHANGED <<fs, gen, snap, auxVars>>

\* One pass of the mini-batch loop (lines 197-255): at a multiple of
\* val_interval the validation check (which rebinds feed_dict to each
\* validation batch), the window, the best-model save; then the gradient
\* update with whatever feed_dict now holds. costs are the validation
\* batches' losses; a target_loss handle of None evaluates to 0 (line 227).
TrainBatch ==
  /\ pc = "training"
  /\ loop.epoch < self.config.n_epochs
  /\ stamp < MaxStamp
  /\ \E costs \in [1..loop.nVal -> 0..MaxLoss] :
       LET cfg == self.config
           global_step == loop.global_step + 1
           check == (global_step % cfg.val_interval) = 0
           sum_val_loss == IF self.ops["target_loss"] = "None" THEN 0
                           ELSE SumSeq([i \in 1..loop.nVal |-> costs[i]])
           val_window == Tail(Append(loop.val_window, sum_val_loss))
           improved == WindowMean(val_window) <= loop.best_val_loss
           doSave == check /\ improved /\ cfg.save_best_model
           sv == IF doSave THEN SaveModel(Machine, fs, cfg.autosave_path)
                 ELSE [m |-> Machine, fs |-> fs, raised |-> ""]
           saved == doSave /\ sv.raised = "" /\ cfg.autosave_path # "None"
           evalRuns == IF check
                       THEN {RunRec(self, graph, "summaries", "train", {DROPOUT_OFF}, "train", loop.td),
                             RunRec(self, graph, "target_loss", "val", {DROPOUT_OFF}, "train", loop.td)}
                       ELSE {}
           trainRun == RunRec(self, graph, "train_op",
                              IF check /\ loop.nVal > 0 THEN "val" ELSE "train",
                              {TrainStepDropout(check)}, "train", loop.td)
           updated == {"shared"} \cup (IF graph.td # 0 THEN {"target"} ELSE {})
           lastBatch == loop.batch + 1 = loop.nBatches
       IN
       IF sv.raised # ""
       THEN /\ self' = sv.m.self
            /\ fs' = sv.fs
            /\ pc' = "idle"
            /\ loop' = <<>>
            /\ runs' = evalRuns
            /\ last' = [last EXCEPT !.raised = sv.raised]
            /\ UNCHANGED <<stamp, snap>>
       ELSE /\ self' = [sv.m.self EXCEPT !.sess.vals =
                           [g \in Groups |-> IF g \in updated THEN stamp + 1 ELSE @[g]]]
            /\ stamp' = stamp + 1
            /\ fs' = sv.fs
            /\ pc' = "training"
            /\ loop' = [loop EXCEPT
                          !.global_step = global_step,
                          !.batch = IF lastBatch THEN 0 ELSE @ + 1,
                          !.epoch = IF lastBatch THEN @ + 1 ELSE @,
                          !.val_window = IF check THEN val_window ELSE @,
                          !.best_val_loss = IF check /\ improved
                                            THEN WindowMean(val_window) ELSE @,
                          !.checks = IF check
                                     THEN Append(@, [total |-> sum_val_loss,
                                                     vals |-> self.sess.vals,
                                                     saved |-> saved])
                                     ELSE @]
            /\ runs' = evalRuns \cup {trainRun}
            /\ snap' = IF saved
                       THEN [snap EXCEPT ![cfg.autosave_path] =
                               <<[vals |-> self.sess.vals,
                                  label_encoder |-> self.label_encoder,
                                  target_dim |-> self.target_dim,
                                  is_trained |-> self.is_trained]>>]
                       ELSE snap
            /\ UNCHANGED last
  /\ UNCHANGED <<graph, gen, loadedFrom, prevFeat, restoredOnce, auxVars>>

\* finetune returns self once every epoch is done (line 257).
FinetuneReturn ==
  /\ pc = "training"
  /\ loop.epoch = self.config.n_epochs
  /\ pc' = "idle"
  /\ loop' = <<>>
  /\ runs' = {}
  /\ UNCHANGED <<self, graph, fs, gen, last, stamp, snap, loadedFrom, prevFeat,
                 restoredOnce, auxVars>>

\* The end of generate_text's range (line 604); max_length 0 stands for None.
GenLoopEnd_Late(max_length, cfg) ==
  (IF max_length # 0 THEN max_length ELSE cfg.max_length) + 2
GenLoopEnd(max_length, cfg) ==
  (IF max_length # 0 THEN max_length ELSE cfg.max_length) - 1

\* generate_text up to its loop (lines 597-604): require_lm is set, the seed
\* text encoded, the graph built in eval mode, and the running sequence
\* seeded. The range starts at len(encoded.token_ids), the number of texts
\* encoded, which is one.
GenStart(seed, max_length) ==
  /\ pc = "idle"
  /\ LET m0 == [Machine EXCEPT !.self.require_lm = TRUE]
         b == BuildModel(m0, fs, self.target_dim, "eval")
     IN
     /\ b.m.st <= MaxStamp
     /\ self' = b.m.self
     /\ graph' = b.m.graph
     /\ stamp' = b.m.st
     /\ pc' = IF b.raised = "" THEN "generating" ELSE "idle"
     /\ gen' = IF b.raised = ""
               THEN [seed |-> seed, string |-> <<START>> \o seed, i |-> 1,
                     stop |-> GenLoopEnd(max_length, self.config),
                     max_length |-> IF max_length # 0 THEN max_length
                                    ELSE self.config.max_length,
                     steps |-> 0, done |-> FALSE, fed |-> <<>>, at |-> 0]
               ELSE <<>>
     /\ last' = [op |-> "generate_text", raised |-> b.raised,
                 constructed |-> b.constructed, restored |-> b.restored,
                 inited |-> b.inited, pre |-> b.pre, rtrain |-> "eval",
                 rtd |-> self.target_dim, read |-> NoVals, path |-> "None"]
     /\ restoredOnce' = (restoredOnce \/ b.restored # {})
  /\ runs' = {}
  /\ UNCHANGED <<fs, loop, snap, loadedFrom, prevFeat, auxVars>>

\* One iteration of the decoding loop (lines 604-609): the encoded seed is
\* formatted again, lm_predict_op is run without a dropout flag, the token at
\* index i of its output is appended, and the loop breaks on the end token.
\* fed is the token sequence the forward pass was given, at the (0-based)
\* position its output was read at.
\* _array_format raises on a sequence longer than config.max_length, and
\* sess.run on a handle that is None.
GenStep ==
  /\ pc = "generating"
  /\ ~gen.done
  /\ gen.i < gen.stop
  /\ IF Len(gen.seed) > self.config.max_length \/ self.ops["lm_predict_op"] = "None"
     THEN /\ pc' = "idle"
          /\ gen' = <<>>
          /\ runs' = {}
          /\ last' = [last EXCEPT !.raised =
                        IF Len(gen.seed) > self.config.max_length
                        THEN "ValueError" ELSE "TypeError"]
     ELSE /\ \E class_idx \in Sampled :
               gen' = [gen EXCEPT !.string = Append(@, class_idx), !.i = @ + 1,
                                  !.steps = @ + 1, !.done = (class_idx = EOS),
                                  !.fed = gen.seed, !.at = gen.i]
          /\ runs' = {RunRec(self, graph, "lm_predict_op", "seed", {}, "eval", last.rtd)}
          /\ UNCHANGED <<pc, last>>
  /\ UNCHANGED <<self, graph, fs, loop, stamp, snap, loadedFrom, prevFeat,
                 restoredOnce, auxVars>>

\* generate_text returns the decoded running sequence (line 610).
GenReturn ==
  /\ pc = "generating"
  /\ gen.done \/ gen.i >= gen.stop
  /\ pc' = "idle"
  /\ gen' = <<>>
  /\ runs' = {}
  /\ UNCHANGED <<self, graph, fs, loop, last, stamp, snap, loadedFrom, prevFeat,
                 restoredOnce, auxVars>>

Next ==
  \/ \E path \in Paths \cup {"None"} : Save(path)
  \/ \E path \in Paths : Load(path)
  \/ \E op \in {"predict", "predict_proba", "featurize"} : Infer(op)
  \/ \E Y \in LabelSets \cup {"None"}, nb \in 1..MaxBatches, nv \in 1..MaxValBatches :
       FinetuneStart(Y, nb, nv)
  \/ TrainBatch
  \/ FinetuneReturn

Spec == Init /\ [][Next]_vars

\* The runs of the five entry points that need the graph, without save / load.
InitGen == InitWith(GenConfigs)

NextGen ==
  \/ \E op \in {"predict", "predict_proba", "featurize"} : Infer(op)
  \/ \E Y \in LabelSets \cup {"None"}, nv \in 1..MaxValBatches : FinetuneStart(Y, 1, nv)
  \/ TrainBatch
  \/ FinetuneReturn
  \/ \E seed \in Seeds, max_length \in {0, MaxGenArg} : GenStart(seed, max_length)
  \/ GenStep
  \/ GenReturn

SpecGen == InitGen /\ [][NextGen]_vars

\* ------------------------------------------------------------ _array_format
PAD_TOKEN == "<PAD>"
VocabSize == MaxToken + 1
NoArray == [state |-> "none", token_ids |-> <<>>, mask |-> <<>>, labels |-> <<>>]

\* mask[i, 1:seq_length] = 1 on a row of zeros (lines 365, 372).
MaskRow_FromZero(seq_length, max_length) ==
  [j \in 0..(max_length - 1) |-> IF j < seq_length THEN 1 ELSE 0]
MaskRow(seq_length, max_length) ==
  [j \in 0..(max_length - 1) |-> IF 1 <= j /\ j < seq_length THEN 1 ELSE 0]

\* _array_format (lines 355-384). Arrays are indexed from 0 as in numpy. The
\* assignment x[i, :seq_length, 0] = token_ids[i] raises ValueError when the
\* sequence is longer than max_length. enc.labels = <<>> stands for None.
ArrayFormat(enc, cfg, vocab_size) ==
  LET n == Len(enc.token_ids)
      ml == cfg.max_length
  IN  IF \E i \in 1..n : Len(enc.token_ids[i]) > ml
      THEN [NoArray EXCEPT !.state = "raised"]
      ELSE [state |-> "ok",
            token_ids |-> [i \in 1..n |->
                             [j \in 0..(ml - 1) |->
                                <<IF j < Len(enc.token_ids[i]) THEN enc.token_ids[i][j + 1] ELSE 0,
                                  vocab_size + j>>]],
            mask |-> [i \in 1..n |-> MaskRow(Len(enc.token_ids[i]), ml)],
            labels |-> IF enc.labels = <<>> THEN <<>>
                       ELSE [i \in 1..n |->
                               [j \in 0..(ml - 1) |->
                                  IF j < Len(enc.token_ids[i]) THEN enc.labels[i][j + 1]
                                  ELSE PAD_TOKEN]]]

\* The encoder hands over n examples of the given lengths, with or without
\* per-token labels.
AFEncode(lens, hasLabels) ==
  /\ afIn' = [token_ids |-> [i \in 1..Len(lens) |->
                               [j \in 1..lens[i] |-> ((j - 1) % MaxToken) + 1]],
              labels |-> IF hasLabels
                         THEN [i \in 1..Len(lens) |-> [j \in 1..lens[i] |-> "lab"]]
                         ELSE <<>>]
  /\ afOut' = NoArray
  /\ UNCHANGED <<self, graph, fs, pc, loop, gen, runs, last, stamp, snap, loadedFrom,
                 prevFeat, restoredOnce, lb, gs>>

AFFormat ==
  /\ afIn # <<>>
  /\ afOut.state = "none"
  /\ afOut' = ArrayFormat(afIn, self.config, VocabSize)
  /\ UNCHANGED <<self, graph, fs, pc, loop, gen, runs, last, stamp, snap, loadedFrom,
                 prevFeat, restoredOnce, afIn, lb, gs>>

InitAF ==
  /\ InitWith({[DefaultConfig EXCEPT !.max_length = ml] : ml \in 1..MaxAFLen})

NextAF ==
  \/ \E n \in 1..MaxExamples :
       \E lens \in [1..n -> 0..(self.config.max_length + 1)], hasLabels \in BOOLEAN :
         AFEncode(lens, hasLabels)
  \/ AFFormat

SpecAF == InitAF /\ [][NextAF]_vars

\* --------------------------------------------------------- _load_base_model
\* Configurations around the positional-embedding limit.
BaseConfigs ==
  {[DefaultConfig EXCEPT !.max_length = ml, !.interpolate_pos_embed = ip] :
     ml \in {1, 2, PosEmbedRows, PosEmbedRows + 1}, ip \in BOOLEAN}

\* np.ones_like / np.zeros_like on a matrix, one entry per row.
OnesLike(rows) == [i \in 1..Len(rows) |-> 1]
ZerosLike(rows) == [i \in 1..Len(rows) |-> 0]

RegMask_SpecialLast(base, special, pos) ==
  OnesLike(base) \o OnesLike(pos) \o ZerosLike(special)
\* reg_mask (lines 632-633), rows concatenated along axis 0.
RegMask(base, special, pos) ==
  OnesLike(base) \o ZerosLike(special) \o OnesLike(pos)

\* The reshaped parameter files (lines 616-621): the positional embedding
\* with its 512 rows first, the token embedding second, then the other
\* arrays. A matrix is the sequence of its rows, a row its kind and number.
Pretrained(nBase, nParams) ==
  [k \in 1..nParams |->
     IF k = 1 THEN [i \in 1..PosEmbedRows |-> <<"pos", i>>]
     ELSE IF k = 2 THEN [i \in 1..nBase |-> <<"base", i>>]
     ELSE <<<<"w", k>>>>]

\* _load_base_model (lines 612-641). interpolate_pos_embed resamples the
\* positional rows to max_length rows; otherwise the first max_length rows
\* are kept. del init_params[1] drops the token embedding, now part of the
\* combined first parameter.
LoadBaseModel(cfg, nBase, nSpecial, nParams) ==
  LET p == Pretrained(nBase, nParams) IN
  IF PosEmbedError(cfg)
  THEN [NoBase EXCEPT !.state = "raised", !.nBase = nBase, !.nSpecial = nSpecial]
  ELSE LET pos == IF cfg.interpolate_pos_embed
                  THEN [i \in 1..cfg.max_length |-> <<"pos", i>>]
                  ELSE SubSeq(p[1], 1, IF cfg.max_length < Len(p[1])
                                       THEN cfg.max_length ELSE Len(p[1]))
           special_embed == [i \in 1..nSpecial |-> <<"special", i>>]
           reg_mask == RegMask(p[2], special_embed, pos)
           init_params == <<p[2] \o special_embed \o pos>> \o SubSeq(p, 3, Len(p))
       IN  [state |-> "ok", nBase |-> nBase, nSpecial |-> nSpecial,
            init_params |-> init_params,
            mask |-> <<reg_mask>> \o [k \in 1..(Len(init_params) - 1) |-> 1]]

\* One call of _load_base_model on the files found on disk.
LoadBase(nBase, nSpecial, nParams) ==
  /\ lb' = LoadBaseModel(self.config, nBase, nSpecial, nParams)
  /\ UNCHANGED <<self, graph, fs, pc, loop, gen, runs, last, stamp, snap, loadedFrom,
                 prevFeat, restoredOnce, afVars, gs>>

InitBase == InitWith(BaseConfigs)

NextBase ==
  \E nBase \in 1..MaxBaseRows, nSpecial \in 0..MaxSpecial, nParams \in 2..MaxParams :
    LoadBase(nBase, nSpecial, nParams)

SpecBase == InitBase /\ [][NextBase]_vars

\* ------------------------------------------------------ finetune_grid_search
\* A configuration handed to the grid search: per key, in the order of
\* config.items(), either a concrete value <<"val", v>> or a ranged item
\* <<"range", values>> (an object with get_itterator).
GridKeys == <<"lr", "n_epochs">>
GridConfigs ==
  {[k \in {"lr", "n_epochs"} |-> IF k = "lr" THEN a ELSE b] :
     a \in {<<"val", 1>>} \cup {<<"range", [i \in 1..n |-> i]>> : n \in 1..MaxGridValues},
     b \in {<<"val", 1>>, <<"range", <<1, 2>>>>}}

\* ranged_keys and ranged_itterators (lines 731-736).
RangedKeys(config) == SelectSeq(GridKeys, LAMBDA k : config[k][1] = "range")

\* itertools.product over a sequence of iterators (line 737): the tuples in
\* lexicographic order; the product of no iterator is the one empty tuple.
RECURSIVE Product(_)
Product(its) ==
  IF its = <<>> THEN << <<>> >>
  ELSE LET h == Head(its)
           rest == Product(Tail(its))
       IN  [k \in 1..(Len(h) * Len(rest)) |->
              <<h[((k - 1) \div Len(rest)) + 1]>> \o rest[((k - 1) % Len(rest)) + 1]]

\* config_ = deepcopy(config); config_.update(dict(zip(ranged_keys, grid_item)))
\* (lines 741-742).
GridPointConfig(config, grid_item) ==
  LET keys == RangedKeys(config) IN
  [k \in DOMAIN config |->
     IF \E j \in 1..Len(keys) : keys[j] = k
     THEN <<"val", grid_item[CHOOSE j \in 1..Len(keys) : keys[j] = k]>>
     ELSE config[k]]

\* The configuration stored with a grid point's score (line 749).
ResultConfig(config, config_) == config

\* max(results, key=lambda x: x[1]) (line 754): the first pair of maximal score.
MaxResult(results) ==
  results[CHOOSE k \in 1..Len(results) :
            /\ \A j \in 1..Len(results) : results[j][2] <= results[k][2]
            /\ \A j \in 1..(k - 1) : results[j][2] < results[k][2]]

\* finetune_grid_search up to its loop (lines 728-738).
GridStart(config, return_all) ==
  /\ pc = "idle"
  /\ gs.state # "running"
  /\ gs' = [state |-> "running", config |-> config, return_all |-> return_all,
            grid |-> Product([j \in 1..Len(RangedKeys(config)) |->
                                config[RangedKeys(config)[j]][2]]),
            points |-> <<>>, results |-> <<>>, out |-> <<>>]
  /\ UNCHANGED <<self, graph, fs, pc, loop, gen, runs, last, stamp, snap, loadedFrom,
                 prevFeat, restoredOnce, afVars, lb>>

\* One grid point (lines 739-750): the default graph is reset, a new instance
\* is trained on the training split and asked to predict the test split,
\* which leaves its eval graph as the default graph, and eval_fn's score is
\* stored; points keeps the configuration the instance was made with.
GridPoint(score) ==
  /\ gs.state = "running"
  /\ gs.grid # <<>>
  /\ LET config_ == GridPointConfig(gs.config, Head(gs.grid))
         fresh == [self |-> NewModel(DefaultConfig), graph |-> EmptyGraph, st |-> 0]
         trained == ConstructGraph(fresh, 2, "train")
     IN  /\ gs' = [gs EXCEPT !.grid = Tail(@),
                             !.points = Append(@, config_),
                             !.results = Append(@, <<ResultConfig(gs.config, config_), score>>)]
         /\ graph' = ConstructGraph(trained, 2, "eval").graph
  /\ UNCHANGED <<self, fs, pc, loop, gen, runs, last, stamp, snap, loadedFrom,
                 prevFeat, restoredOnce, afVars, lb>>

\* The return of finetune_grid_search (lines 751-754).
GridReturn ==
  /\ gs.state = "running"
  /\ gs.grid = <<>>
  /\ gs' = [gs EXCEPT !.state = "done",
                      !.out = IF gs.return_all THEN gs.results
                              ELSE MaxResult(gs.results)[1]]
  /\ UNCHANGED <<self, graph, fs, pc, loop, gen, runs, last, stamp, snap, loadedFrom,
                 prevFeat, restoredOnce, afVars, lb>>

InitGrid == InitWith({DefaultConfig})

NextGrid ==
  \/ \E config \in GridConfigs, return_all \in BOOLEAN : GridStart(config, return_all)
  \/ \E score \in 0..MaxScore : GridPoint(score)
  \/ GridReturn

SpecGrid == InitGrid /\ [][NextGrid]_vars

\* ================================================================== claims

\* A step that starts one of the entry points that need the graph.
EntryStep == pc = "idle" /\ last'.op \in EntryOps

\* C1: a trained model saved to a path, loaded from it and asked to predict
\* (the graph rebuilt in eval mode, nothing trained or saved in between)
\* reads, for every variable the eval graph uses, the value the saving model
\* held at save time, and has that model's label_encoder and target_dim.
C1_RoundTrip ==
  (/\ last.op = "predict" /\ last.raised = ""
   /\ loadedFrom # "None" /\ snap[loadedFrom] # <<>>
   /\ snap[loadedFrom][1].is_trained)
  => LET o == snap[loadedFrom][1] IN
       /\ last.read["shared"] = o.vals["shared"] /\ o.vals["shared"] # 0
       /\ o.target_dim # 0 => (last.read["target"] = o.vals["target"] /\ o.vals["target"] # 0)
       /\ self.label_encoder = o.label_encoder
       /\ self.target_dim = o.target_dim

C1_Witness ==
  /\ last.op = "predict" /\ last.raised = ""
  /\ loadedFrom # "None" /\ snap[loadedFrom] # <<>>
  /\ snap[loadedFrom][1].is_trained
  /\ last.restored = {"shared", "target"}
  /\ self.label_encoder = "xy"

\* C2: two featurize calls on one instance with no finetune call in between
\* read the same parameter values.
C2_FeaturizeIdempotent ==
  [][(prevFeat # 0 /\ prevFeat' # 0) => prevFeat' = prevFeat]_vars

\* The total of the val_window_size validation losses ending at check k.
FullWindow(checks, W, k) == SumSeq([i \in 1..W |-> checks[k - W + i].total])

\* C3: with save_best_model on and more than val_window_size validation
\* checks, the checkpoint on disk when the loop has run out is the one
\* persisted at a check whose full window has the least mean of all full
\* windows.
C3_BestWindowCheckpoint ==
  LET cfg == self.config
      W == cfg.val_window_size
      n == Len(loop.checks)
  IN  (/\ pc = "training" /\ loop.epoch = cfg.n_epochs
       /\ cfg.save_best_model /\ cfg.autosave_path # "None" /\ n > W)
      => \E k \in W..n :
           /\ \A j \in W..n : FullWindow(loop.checks, W, k) <= FullWindow(loop.checks, W, j)
           /\ loop.checks[k].saved
           /\ fs[cfg.autosave_path].ckpt = <<loop.checks[k].vals>>

\* The loop has run out after three checks, and the checkpoint kept is not
\* the one of the check with the least single loss.
C3_Witness ==
  /\ pc = "training" /\ loop.epoch = self.config.n_epochs
  /\ self.config.save_best_model /\ Len(loop.checks) > self.config.val_window_size
  /\ self.config.val_window_size > 1
  /\ \E k, j \in 1..Len(loop.checks) :
       /\ fs[self.config.autosave_path].ckpt = <<loop.checks[k].vals>>
       /\ loop.checks[j].total < loop.checks[k].total

\* C4: load restores no variable; the build that finds the marker pending
\* restores exactly the shared variables, plus the task-head variables when
\* the stored target_dim is not None, from the marked checkpoint, gives a
\* fresh value to a task head it did not restore, and clears the marker; an
\* instance restores once and never initialises from the pretrained weights.
C4_DeferredRestore ==
  [][/\ last'.op = "load"
        => (/\ ~self'.sess.open /\ self'.sess.vals = NoVals
            /\ last'.restored = {} /\ self'.load_from_file # "False")
     /\ (EntryStep /\ self.load_from_file # "False" /\ last'.raised = "")
        => last'.restored # {}
     /\ (EntryStep /\ last'.restored # {})
        => (/\ self.load_from_file # "False"
            /\ last'.restored =
                 {"shared"} \cup (IF self.target_dim # 0
                                  THEN graph'.vars \cap {"target"} ELSE {})
            /\ \A g \in last'.restored :
                 self'.sess.vals[g] = fs[self.load_from_file].ckpt[1][g]
            /\ "target" \in graph'.vars \ last'.restored
                 => (stamp' = stamp + 1 /\ self'.sess.vals["target"] = stamp')
            /\ self'.load_from_file = "False"
            /\ ~last'.pre)
     /\ (EntryStep /\ restoredOnce) => (last'.restored = {} /\ ~last'.pre)
    ]_vars

\* C5: every op is run on a graph constructed for the (train mode,
\* target_dim) pair its entry point asked for.
C5_RunsOnRequestedGraph ==
  \A r \in runs : r.gtrain = r.rtrain /\ r.gtd = r.rtd

\* C6: train_op is fed dropout 1; the validation, train-summary and inference
\* ops are fed dropout 0.
C6_DropoutFlags ==
  \A r \in runs :
    /\ r.op = "train_op" => r.dropout = {1}
    /\ r.op \in {"summaries", "target_loss", "predict_op", "predict_proba_op", "features"}
         => r.dropout = {0}

\* A mini-batch at a validation interval: both kinds of step in one pass.
C6_Witness ==
  /\ \E r \in runs : r.op = "train_op" /\ r.src = "val"
  /\ \E r \in runs : r.op = "target_loss"

\* C7: with interpolate_pos_embed off and max_length above 512 every entry
\* point that needs the graph raises ValueError, and leaves the graph, the
\* session, train, target_dim, is_built and is_trained as they were.
C7_LongConfigRejected ==
  [][(/\ EntryStep
      /\ ~self.config.interpolate_pos_embed
      /\ self.config.max_length > 512)
     => (/\ last'.raised = "ValueError"
         /\ graph' = graph
         /\ self'.sess = self.sess
         /\ self'.train = self.train
         /\ self'.target_dim = self.target_dim
         /\ self'.is_built = self.is_built
         /\ self'.is_trained = self.is_trained
         /\ runs' = {}
         /\ pc' = "idle")]_vars

C7_Witness ==
  /\ self.config.max_length > 512 /\ ~self.config.interpolate_pos_embed
  /\ last.op = "generate_text" /\ last.raised = "ValueError"
  /\ self.require_lm /\ ~self.sess.open /\ graph = EmptyGraph

C9_GenerateBounded ==
  pc = "generating"
  => (/\ gen.steps <= gen.max_length
      /\ gen.i = gen.steps + 1
      /\ Len(gen.string) = 1 + Len(gen.seed) + gen.steps
      /\ gen.string[1] = START
      /\ SubSeq(gen.string, 2, 1 + Len(gen.seed)) = gen.seed)

\* The loop has run out without the end token being sampled.
C9_Witness ==
  /\ pc = "generating" /\ gen.i >= gen.stop /\ ~gen.done
  /\ gen.steps > 1 /\ gen.seed # <<>>

\* C10: every mask row of _array_format is 0 at index 0, 1 at the indices
\* from 1 up to the sequence length, and 0 from the sequence length on.
C10_MaskInvariant ==
  afOut.state = "ok"
  => \A i \in 1..Len(afIn.token_ids) :
       LET L == Len(afIn.token_ids[i]) IN
         /\ DOMAIN afOut.mask[i] = 0..(self.config.max_length - 1)
         /\ \A j \in 0..(self.config.max_length - 1) :
              afOut.mask[i][j] = IF j = 0 \/ j >= L THEN 0 ELSE 1

\* A batch with a sequence of full length and one of at most one token.
C10_Witness ==
  /\ afOut.state = "ok" /\ Len(afIn.token_ids) = 2
  /\ Len(afIn.token_ids[1]) = self.config.max_length
  /\ Len(afIn.token_ids[2]) <= 1
  /\ self.config.max_length > 2

\* C11: in the output of _load_base_model the regularization mask of the first
\* parameter has one entry per row of the combined first parameter, whose
\* rows are the base token rows, then the special-token rows, then max_length
\* positional rows; the mask is 0 on the special-token rows and 1 elsewhere;
\* the mask sequence is as long as the parameter list and 1 after its first
\* entry.
C11_RegMaskAligned ==
  lb.state = "ok"
  => LET first == lb.init_params[1]
         reg == lb.mask[1]
     IN  /\ Len(reg) = Len(first)
         /\ Len(first) = lb.nBase + lb.nSpecial + self.config.max_length
         /\ \A i \in 1..Len(first) :
              /\ first[i][1] = IF i <= lb.nBase THEN "base"
                               ELSE IF i <= lb.nBase + lb.nSpecial THEN "special"
                               ELSE "pos"
              /\ reg[i] = IF first[i][1] = "special" THEN 0 ELSE 1
         /\ Len(lb.mask) = Len(lb.init_params)
         /\ \A k \in 2..Len(lb.mask) : lb.mask[k] = 1

\* A truncated positional embedding behind two base and three special rows,
\* with a parameter after the first.
C11_Witness ==
  /\ lb.state = "ok" /\ lb.nBase = 2 /\ lb.nSpecial = 3
  /\ ~self.config.interpolate_pos_embed /\ self.config.max_length = 2
  /\ Len(lb.init_params) = 2 /\ Len(lb.init_params[1]) = 7

\* C12: once a label encoder has been fitted, no later call replaces it:
\* every call other than load leaves the model's label_encoder as it was, and
\* load hands back the encoder that was saved at the path.
C12_LabelEncoderPersists ==
  [][/\ (self.label_encoder \in LabelSets /\ last'.op # "load")
        => self'.label_encoder = self.label_encoder
     /\ (last'.op = "load" /\ last'.raised = "")
        => self'.label_encoder = snap[last'.path][1].label_encoder]_vars

\* C13: while generate_text runs its decoding loop the graph last constructed
\* contains the language-model head and lm_predict_op is an op of that graph.
C13_GenerateBuildsLmHead ==
  pc = "generating" => (graph.lm /\ self.ops["lm_predict_op"] = "cur")

\* C14: each decoding iteration of generate_text feeds the forward pass the
\* running sequence as it stood before the iteration (start token, seed,
\* tokens sampled so far), appends the token sampled at the position of that
\* sequence's last token, and the running sequence never grows beyond
\* max_length tokens.
C14_DecodesRunningSequence ==
  (pc = "generating" /\ gen.steps > 0)
  => (/\ gen.fed = SubSeq(gen.string, 1, Len(gen.string) - 1)
      /\ gen.at = Len(gen.fed) - 1
      /\ Len(gen.string) <= gen.max_length)

\* C15: a call of save that starts with the marker _load_from_file at False
\* ends with the marker at False, whether it returns or raises.
C15_MarkerTemporary ==
  [][(pc = "idle" /\ last'.op = "save" /\ self.load_from_file = "False")
     => self'.load_from_file = "False"]_vars

\* C16: every gradient-update step of the training loop is fed the training
\* mini-batch the iterator yielded for it, never a batch of the validation
\* partition.
C16_UpdateOnTrainingBatch ==
  \A r \in runs : r.op = "train_op" => r.src = "train"

\* C17: finetune_grid_search with return_all false returns the concrete
\* configuration of a grid point of maximal score; with return_all true it
\* returns, per grid point in order, the concrete configuration of the point
\* with its score; and the configuration handed in is not changed.
C17_GridSearchReturnsGridPoint ==
  [][/\ (gs.state = "running" /\ gs'.state = "done" /\ ~gs.return_all)
        => \E k \in 1..Len(gs.points) :
             /\ gs'.out = gs.points[k]
             /\ \A j \in 1..Len(gs.results) : gs.results[j][2] <= gs.results[k][2]
     /\ (gs.state = "running" /\ gs'.state = "done" /\ gs.return_all)
        => /\ Len(gs'.out) = Len(gs.points)
           /\ \A k \in 1..Len(gs.points) :
                gs'.out[k] = <<gs.points[k], gs.results[k][2]>>
     /\ gs.state = "running" => gs'.config = gs.config]_vars

====
